---- MODULE Spec2Model ----
(***************************************************************************)
(* Energy-board: the telemetry write path (fetch_and_log_once ->           *)
(* parse_metrics -> build_doc -> insert_reading), the read path            *)
(* (latest_docs, range_docs), the one-shot history seeder and the device   *)
(* registry, as a state machine over the MongoDB collections.              *)
(*                                                                         *)
(* Time is counted in whole hours.  A Python datetime is a record          *)
(* [wall, tz]: the wall-clock reading in hours and its tzinfo ("None" for  *)
(* a naive datetime).  A Python float a/b is the record [num, den] (the    *)
(* quotient is never rounded in the model); two of them are compared by    *)
(* cross-multiplication.  A raised exception is the field exc (its class   *)
(* name; "" when the call returned).                                       *)
(***************************************************************************)
EXTENDS Integers, Sequences, FiniteSets, TLC

VARIABLES
    MONGODB_URI,   \* tuya_api_mongo.MONGODB_URI / seed_history.MONGODB_URI
    backendUp,     \* whether the MongoDB deployment (and its DNS) answers
    _client,       \* tuya_api_mongo._client, the lazily built MongoClient
    store,         \* the collections readings_<device_id>, in insertion order
    meta,          \* the 'meta' collection: the history_seed_done document
    devices,       \* devices.json, the device registry
    clock,         \* the UTC instant, in hours
    ret,           \* what the last operation returned to its caller
    threads        \* the calls and seeding runs in progress side by side

vars == <<MONGODB_URI, backendUp, _client, store, meta, devices, clock, ret, threads>>

----------------------------------------------------------------------------
(* Bounds of the model *)

MaxReadings == 2      \* sampler writes per collection
MaxDevices == 1       \* entries of devices.json
TickHours == 9        \* hours per clock advance
MaxN == 2             \* largest n asked of latest_docs
SeedDays == 1         \* days the seeder fills (PAST_DAYS of them in the code)
SeedStepHours == 12   \* hours between seeded readings (STEP_MINUTES in the code)
MaxCalls == 2         \* fetch_and_log_once calls in progress side by side
MaxRuns == 2          \* imports of seed_history in progress side by side

(* Program constants *)

DHAKA_OFFSET_HOURS == 6
HoursPerDay == 24
VoltageScale == 10
PowerScale == 10
CurrentScale == 1000
EnergyScale == 1000
BASE_VOLTAGE == 230

DEVICE_ID == "YOUR_TUYA_DEVICE_ID_1"
DEVICE_NAME == "FUB 401 - Lab Plug"

None == "None"
ClockStart == 2 * HoursPerDay + 12
ClockEnd == 3 * HoursPerDay

\* Device ids a caller may pass: the seeded device, another plug, and an id
\* that is typed with a '$' in it (add_device_page accepts any non-blank text).
DeviceIds == {DEVICE_ID, "plug2", "plug$3"}

\* pymongo refuses a collection name that contains '$' (InvalidName).
InvalidCollectionName(device_id) == device_id = "plug$3"

\* Ids typed into add_device_page
RegistryIds == {DEVICE_ID, "plug2"}

URIs == {"", "mongodb://host/db", "mongodb+srv://host/db"}

----------------------------------------------------------------------------
(* datetime *)

dhaka_tz == "UTC+06:00"

utcoffset(tz) == IF tz = dhaka_tz THEN DHAKA_OFFSET_HOURS ELSE 0

\* datetime.now(tz)
now(tz) == [wall |-> clock + utcoffset(tz), tz |-> tz]

\* datetime.utcnow(): naive
utcnow == [wall |-> clock, tz |-> None]

\* ts.astimezone(timezone.utc) of an aware datetime
astimezone_utc(ts) == [wall |-> ts.wall - utcoffset(ts.tz), tz |-> "UTC"]

\* ts.replace(tzinfo=None)
replace_tzinfo_none(ts) == [wall |-> ts.wall, tz |-> None]

\* midnight of the calendar day of a naive datetime
day_start_of(wall) == wall - (wall % HoursPerDay)

----------------------------------------------------------------------------
(* helpers.parse_metrics *)

Codes == {"cur_voltage", "cur_power", "cur_current", "add_ele"}

Div(a, b) == [num |-> a, den |-> b]

\* {x.get("code"): x.get("value") for x in result}: a later entry of the
\* same code replaces an earlier one.
RECURSIVE CodeMap(_)
CodeMap(result) ==
    IF result = <<>> THEN [c \in {} |-> 0]
    ELSE LET init == CodeMap(SubSeq(result, 1, Len(result) - 1))
             x == result[Len(result)]
         IN [c \in (DOMAIN init) \cup {x.code} |->
                IF c = x.code THEN x.value ELSE init[c]]

\* m.get(code) or 0
GetOr0(m, code) == IF code \in DOMAIN m /\ m[code] # 0 THEN m[code] ELSE 0

\* The exception parse_metrics raises on this payload, "" when it returns.
\* An absent "result" is []; a "result" that is no list (JSON null) cannot
\* be iterated; an entry that is no object has no .get.
parse_metrics_exc(status_json) ==
    IF "result" \notin DOMAIN status_json THEN ""
    ELSE IF status_json.result.shape # "list" THEN "TypeError"
    ELSE IF \E i \in DOMAIN status_json.result.items :
                status_json.result.items[i].shape # "dict"
         THEN "AttributeError"
    ELSE ""

parse_metrics_swapped(status_json) ==
    LET result == IF "result" \in DOMAIN status_json
                  THEN status_json.result.items ELSE <<>>
        m == CodeMap(result)
    IN [voltage |-> Div(GetOr0(m, "cur_voltage"), VoltageScale),
        current |-> Div(GetOr0(m, "cur_current"), PowerScale),
        power |-> Div(GetOr0(m, "cur_power"), CurrentScale),
        energy_kwh |-> Div(GetOr0(m, "add_ele"), EnergyScale)]

\* The tuple (voltage, current, power, energy_kwh) parse_metrics returns.
parse_metrics(status_json) ==
    LET result == IF "result" \in DOMAIN status_json
                  THEN status_json.result.items ELSE <<>>
        m == CodeMap(result)
        raw_voltage == GetOr0(m, "cur_voltage")
        raw_power == GetOr0(m, "cur_power")
        raw_current == GetOr0(m, "cur_current")
        raw_add_ele == GetOr0(m, "add_ele")
    IN [voltage |-> Div(raw_voltage, VoltageScale),
        current |-> Div(raw_current, CurrentScale),
        power |-> Div(raw_power, PowerScale),
        energy_kwh |-> Div(raw_add_ele, EnergyScale)]

\* helpers.build_doc
build_doc(device_id, device_name, v, c, p, e) ==
    [timestamp |-> now(dhaka_tz),
     device_id |-> device_id,
     device_name |-> IF device_name = None THEN "" ELSE device_name,
     voltage |-> v, current |-> c, power |-> p, energy_kWh |-> e]

----------------------------------------------------------------------------
(* pymongo, as tuya_api_mongo uses it *)

PyMongoErrors == {"ServerSelectionTimeoutError", "ConfigurationError", "InvalidName"}

\* MongoClient(MONGODB_URI, tls=True): connects lazily, except that a
\* mongodb+srv:// URI is resolved through DNS in the constructor, which
\* raises ConfigurationError when the lookup fails.
MongoClient(uri) ==
    IF uri = "mongodb+srv://host/db" /\ ~backendUp
    THEN [exc |-> "ConfigurationError", client |-> None]
    ELSE [exc |-> "", client |-> "MongoClient"]

\* BSON holds a datetime as a UTC instant: an aware datetime is converted on
\* encoding, a naive one is taken as UTC; documents decode to naive datetimes.
bson_datetime(ts) ==
    IF ts.tz = None THEN ts ELSE replace_tzinfo_none(astimezone_utc(ts))

bson(doc) == [doc EXCEPT !.timestamp = bson_datetime(doc.timestamp)]

insert_one_upsert(coll, doc) ==
    IF ~backendUp THEN [exc |-> "ServerSelectionTimeoutError", docs |-> store[coll]]
    ELSE LET same == {i \in DOMAIN store[coll] :
                         store[coll][i].timestamp = bson(doc).timestamp}
         IN [exc |-> "",
             docs |-> IF same = {} THEN Append(store[coll], bson(doc))
                      ELSE [i \in DOMAIN store[coll] |->
                               IF i \in same THEN bson(doc) ELSE store[coll][i]]]

\* coll.insert_one(doc)
insert_one(coll, doc) ==
    IF ~backendUp THEN [exc |-> "ServerSelectionTimeoutError", docs |-> store[coll]]
    ELSE [exc |-> "", docs |-> Append(store[coll], bson(doc))]

\* A stable sort on "timestamp": documents of equal timestamp keep the
\* order they come in.
RECURSIVE SortByTimestamp(_, _)
SortByTimestamp(docs, descending) ==
    IF docs = <<>> THEN <<>>
    ELSE LET init == SortByTimestamp(SubSeq(docs, 1, Len(docs) - 1), descending)
             x == docs[Len(docs)]
             Before(y) == IF descending
                          THEN y.timestamp.wall >= x.timestamp.wall
                          ELSE y.timestamp.wall <= x.timestamp.wall
             k == Cardinality({i \in DOMAIN init : Before(init[i])})
         IN SubSeq(init, 1, k) \o <<x>> \o SubSeq(init, k + 1, Len(init))

\* cursor.limit(n): a limit of 0 is no limit
Limit(docs, n) ==
    IF n = 0 \/ n >= Len(docs) THEN docs ELSE SubSeq(docs, 1, n)

MatchesExclusive(doc, query) ==
    /\ query.gte <= doc.timestamp.wall
    /\ doc.timestamp.wall < query.lte

\* {"timestamp": {"$gte": start, "$lte": end}}
Matches(doc, query) ==
    /\ query.gte <= doc.timestamp.wall
    /\ doc.timestamp.wall <= query.lte

RECURSIVE Filter(_, _)
Filter(docs, query) ==
    IF docs = <<>> THEN <<>>
    ELSE LET init == Filter(SubSeq(docs, 1, Len(docs) - 1), query)
             x == docs[Len(docs)]
         IN IF Matches(x, query) THEN Append(init, x) ELSE init

\* coll.find(query, sort=[("timestamp", direction)], limit=n) read to the end
find(coll, query, descending, n) ==
    IF ~backendUp THEN [exc |-> "ServerSelectionTimeoutError", docs |-> <<>>]
    ELSE [exc |-> "",
          docs |-> Limit(SortByTimestamp(Filter(store[coll], query), descending), n)]

AllDocs == [gte |-> -1000000, lte |-> 1000000]

----------------------------------------------------------------------------
(* tuya_api_mongo *)

get_client ==
    IF _client = None /\ MONGODB_URI # ""
    THEN MongoClient(MONGODB_URI)
    ELSE [exc |-> "", client |-> _client]

\* _get_db cannot raise (get_default_database is wrapped, client[name] is
\* lazy); db[name] validates the collection name; create_index is wrapped.
\* client is the value of _client when the call ends.
_get_collection(device_id) ==
    LET gc == get_client
    IN IF gc.exc # "" THEN [exc |-> gc.exc, coll |-> None, client |-> _client]
       ELSE IF gc.client = None THEN [exc |-> "", coll |-> None, client |-> None]
       ELSE IF InvalidCollectionName(device_id)
            THEN [exc |-> "InvalidName", coll |-> None, client |-> gc.client]
       ELSE [exc |-> "", coll |-> device_id, client |-> gc.client]

insert_reading_shift_only(device_id, doc) ==
    LET gcoll == _get_collection(device_id)
    IN IF gcoll.exc # "" THEN [exc |-> gcoll.exc, client |-> gcoll.client, wrote |-> FALSE]
       ELSE IF gcoll.coll = None THEN [exc |-> "", client |-> gcoll.client, wrote |-> FALSE]
       ELSE LET ts == doc.timestamp
                doc2 == IF ts.tz # None
                        THEN [doc EXCEPT !.timestamp = replace_tzinfo_none(ts)]
                        ELSE doc
                ins == insert_one(gcoll.coll, doc2)
            IN [exc |-> "", client |-> gcoll.client, wrote |-> ins.exc = "",
                coll |-> gcoll.coll, docs |-> ins.docs]

\* insert_reading: exc is what it raises, wrote whether insert_one returned,
\* docs the collection's content afterwards.
insert_reading(device_id, doc) ==
    LET gcoll == _get_collection(device_id)
    IN IF gcoll.exc # "" THEN [exc |-> gcoll.exc, client |-> gcoll.client, wrote |-> FALSE]
       ELSE IF gcoll.coll = None THEN [exc |-> "", client |-> gcoll.client, wrote |-> FALSE]
       ELSE LET ts == doc.timestamp
                doc2 == IF ts.tz # None
                        THEN [doc EXCEPT !.timestamp =
                                 replace_tzinfo_none(astimezone_utc(ts))]
                        ELSE doc
                ins == insert_one(gcoll.coll, doc2)
            IN \* a PyMongoError of insert_one is caught and printed
               [exc |-> "", client |-> gcoll.client, wrote |-> ins.exc = "",
                coll |-> gcoll.coll, docs |-> ins.docs]

\* latest_docs: df is the returned frame's rows (<<>> for pd.DataFrame()).
latest_docs(device_id, n) ==
    LET gcoll == _get_collection(device_id)
    IN IF gcoll.exc # "" THEN [exc |-> gcoll.exc, client |-> gcoll.client, df |-> <<>>]
       ELSE IF gcoll.coll = None THEN [exc |-> "", client |-> gcoll.client, df |-> <<>>]
       ELSE LET f == find(gcoll.coll, AllDocs, TRUE, n)
            IN IF f.exc # "" THEN [exc |-> "", client |-> gcoll.client, df |-> <<>>]
               ELSE [exc |-> "", client |-> gcoll.client,
                     df |-> SortByTimestamp(f.docs, FALSE)]

\* range_docs: start and end are naive datetimes, given by their hour.
range_docs(device_id, start, end) ==
    LET gcoll == _get_collection(device_id)
        query == [gte |-> start, lte |-> end]
    IN IF gcoll.exc # "" THEN [exc |-> gcoll.exc, client |-> gcoll.client, df |-> <<>>]
       ELSE IF gcoll.coll = None THEN [exc |-> "", client |-> gcoll.client, df |-> <<>>]
       ELSE LET f == find(gcoll.coll, query, FALSE, 0)
            IN IF f.exc # "" THEN [exc |-> "", client |-> gcoll.client, df |-> <<>>]
               ELSE [exc |-> "", client |-> gcoll.client, df |-> f.docs]

----------------------------------------------------------------------------
(* tuya_api: what get_token and get_device_status hand to the sampler *)

Entry(code, value) == [shape |-> "dict", code |-> code, value |-> value]
List(items) == [shape |-> "list", items |-> items]

RawFail == [success |-> FALSE]
RawFull == [success |-> TRUE,
            result |-> List(<<Entry("cur_voltage", 2300), Entry("cur_power", 1500),
                              Entry("cur_current", 6500), Entry("add_ele", 12345)>>)]
RawEmpty == [success |-> TRUE, result |-> List(<<>>)]
RawNoResult == [success |-> TRUE]
RawUnknown == [success |-> TRUE, result |-> List(<<Entry("switch_1", 1)>>)]
RawBadEntry == [success |-> TRUE, result |-> List(<<[shape |-> "str"]>>)]

\* get_token(): the access token
get_token == "token"

\* What get_device_status(device_id, token) may return: the vendor's JSON
\* answer, flagged failed or successful, of any of these shapes.
RawStatuses == {RawFail, RawFull, RawEmpty, RawNoResult, RawUnknown, RawBadEntry}

----------------------------------------------------------------------------
(* get_power_data.fetch_and_log_once *)

NoRaw == [absent |-> TRUE]

\* raw.get("success")
Success(raw) == "success" \in DOMAIN raw /\ raw.success

\* raw is the payload the call had in hand when it raised
Raised(exc, raw, client) ==
    [kind |-> "raised", exc |-> exc, rows |-> <<>>, raw |-> raw,
     client |-> client, wrote |-> FALSE]

\* kind "ok" is {"ok": True, "row": doc, "raw": raw}, kind "error" is
\* {"error": raw}, kind "raised" an exception that leaves the function.
\* raw is what get_device_status(device_id, get_token()) returns in this call.
fetch_and_log_once(device_id, device_name, raw) ==
    IF ~Success(raw)
    THEN [kind |-> "error", exc |-> "", rows |-> <<>>, raw |-> raw,
          client |-> _client, wrote |-> FALSE]
    ELSE IF parse_metrics_exc(raw) # ""
         THEN Raised(parse_metrics_exc(raw), raw, _client)
    ELSE LET m == parse_metrics(raw)
             doc == build_doc(device_id, device_name,
                              m.voltage, m.current, m.power, m.energy_kwh)
             ins == insert_reading(device_id, doc)
         IN IF ins.exc # "" THEN Raised(ins.exc, raw, ins.client)
            ELSE [kind |-> "ok", exc |-> "", rows |-> <<doc>>, raw |-> raw,
                  client |-> ins.client, wrote |-> ins.wrote,
                  docs |-> IF ins.wrote THEN ins.docs ELSE <<>>]

----------------------------------------------------------------------------
(* seed_history *)

SEED_OK == MONGODB_URI # ""

_already_seeded_wrong_key ==
    IF ~SEED_OK THEN TRUE
    ELSE \E i \in DOMAIN meta : meta[i].id = "history_seeded" /\ meta[i].done

\* _already_seeded, once meta_coll.find_one has answered
_already_seeded ==
    IF ~SEED_OK THEN TRUE
    ELSE \E i \in DOMAIN meta : meta[i].id = "history_seed_done" /\ meta[i].done

\* the base profile of power_profile_for_minute (the random variation left out)
power_profile_for_hour(hour) ==
    IF hour < 6 THEN 8
    ELSE IF hour < 9 THEN 70
    ELSE IF hour < 12 THEN 130
    ELSE IF hour < 17 THEN 170
    ELSE IF hour < 22 THEN 90
    ELSE 20

StepsPerDay == ((HoursPerDay - 1) \div SeedStepHours) + 1

\* the i-th generated timestamp, i = 0, 1, ..., counted from start_date 00:00
seed_step(i) == (i % StepsPerDay) * SeedStepHours
seed_ts(start, i) == start + (i \div StepsPerDay) * HoursPerDay + seed_step(i)

RECURSIVE seed_energy(_)
seed_energy(i) ==
    IF i < 0 THEN 0
    ELSE seed_energy(i - 1) + power_profile_for_hour(seed_step(i)) * SeedStepHours

\* generate_docs: the days start_date .. end_date of the UTC calendar, one
\* document every step
generate_docs ==
    LET today == day_start_of(utcnow.wall)
        start_date == today - SeedDays * HoursPerDay
    IN [k \in 1..(SeedDays * StepsPerDay) |->
          [timestamp |-> [wall |-> seed_ts(start_date, k - 1), tz |-> None],
           device_id |-> DEVICE_ID,
           device_name |-> DEVICE_NAME,
           voltage |-> Div(BASE_VOLTAGE, 1),
           current |-> Div(power_profile_for_hour(seed_step(k - 1)), BASE_VOLTAGE),
           power |-> Div(power_profile_for_hour(seed_step(k - 1)), 1),
           energy_kWh |-> Div(seed_energy(k - 1), 1000)]]

insert_many_replacing(coll, docs) == docs

\* readings_coll.insert_many(docs): the collection's content afterwards
insert_many(coll, docs) == store[coll] \o docs

\* _mark_seeded: update_one(..., upsert=True) on the flag document
_mark_seeded ==
    LET flag == [id |-> "history_seed_done", done |-> TRUE, at |-> utcnow.wall]
    IN IF \E i \in DOMAIN meta : meta[i].id = "history_seed_done"
       THEN [i \in DOMAIN meta |->
                IF meta[i].id = "history_seed_done" THEN flag ELSE meta[i]]
       ELSE Append(meta, flag)

----------------------------------------------------------------------------
(* The state machine *)

Result(op, device_id, a, b, kind, exc, rows, raw) ==
    [op |-> op, device_id |-> device_id, a |-> a, b |-> b,
     kind |-> kind, exc |-> exc, rows |-> rows, raw |-> raw]

NoResult == Result("start", None, 0, 0, "none", "", <<>>, NoRaw)

\* documents the sampler has written, over all collections
RECURSIVE SamplerWrites(_)
SamplerWrites(ids) ==
    IF ids = {} THEN 0
    ELSE LET d == CHOOSE x \in ids : TRUE
         IN Cardinality({i \in DOMAIN store[d] : store[d][i].device_name # DEVICE_NAME})
            + SamplerWrites(ids \ {d})

RangeBounds == {ClockStart, ClockStart + TickHours}

Init ==
    /\ MONGODB_URI \in URIs
    /\ backendUp \in BOOLEAN
    /\ _client = None
    /\ store = [d \in DeviceIds |-> <<>>]
    /\ meta = <<>>
    /\ devices = <<>>
    /\ clock = ClockStart
    /\ ret = NoResult
    /\ threads = <<>>

\* One call of fetch_and_log_once(device_id, device_name) by a page load or
\* a poller; the device's name is its id when it has none.
Sample(device_id, raw) ==
    /\ ret = NoResult
    /\ SamplerWrites(DeviceIds) < MaxReadings
    /\ LET r == fetch_and_log_once(device_id, device_id, raw)
       IN /\ _client' = r.client
          /\ store' = IF r.kind = "ok" /\ r.wrote
                      THEN [store EXCEPT ![device_id] = r.docs]
                      ELSE store
          /\ ret' = Result("fetch_and_log_once", device_id, 0, 0,
                           r.kind, r.exc, r.rows, r.raw)
    /\ UNCHANGED <<threads, MONGODB_URI, backendUp, meta, devices, clock>>

\* One call of latest_docs(device_id, n)
Latest(device_id, n) ==
    /\ ret = NoResult
    /\ LET r == latest_docs(device_id, n)
       IN /\ _client' = r.client
          /\ ret' = Result("latest_docs", device_id, n, 0,
                           IF r.exc # "" THEN "raised" ELSE "rows", r.exc, r.df, NoRaw)
    /\ UNCHANGED <<threads, MONGODB_URI, backendUp, store, meta, devices, clock>>

\* One call of range_docs(device_id, start, end)
Range(device_id, start, end) ==
    /\ ret = NoResult
    /\ LET r == range_docs(device_id, start, end)
       IN /\ _client' = r.client
          /\ ret' = Result("range_docs", device_id, start, end,
                           IF r.exc # "" THEN "raised" ELSE "rows", r.exc, r.df, NoRaw)
    /\ UNCHANGED <<threads, MONGODB_URI, backendUp, store, meta, devices, clock>>

\* datetime.combine(date, datetime.min.time()): a date is its day number
combine_min(date) == [wall |-> date * HoursPerDay, tz |-> None]

\* datetime.combine(date, datetime.max.time()): 23:59:59.999999, which for
\* timestamps on whole hours bounds as the day's last hour does
combine_max(date) == [wall |-> date * HoursPerDay + (HoursPerDay - 1), tz |-> None]

\* dates the two date_input widgets are set to
Dates == {ClockStart \div HoursPerDay, (ClockStart \div HoursPerDay) + 1}

\* device_detail_page, "Historical Analysis": the two dates picked, the
\* bounds built from them and range_docs called with these
Historical(device_id, start_date, end_date) ==
    /\ ret = NoResult
    /\ LET start_dt == combine_min(start_date)
           end_dt == combine_max(end_date)
           r == range_docs(device_id, start_dt.wall, end_dt.wall)
       IN /\ _client' = r.client
          /\ ret' = Result("device_detail_page", device_id, start_date, end_date,
                           IF r.exc # "" THEN "raised" ELSE "rows", r.exc, r.df, NoRaw)
    /\ UNCHANGED <<threads, MONGODB_URI, backendUp, store, meta, devices, clock>>

\* One import of seed_history: the module builds its own MongoClient, then
\* runs run_seed_if_needed inside try/except Exception.
RunSeed ==
    /\ ret = NoResult
    /\ IF ~SEED_OK
       THEN /\ ret' = Result("run_seed_if_needed", DEVICE_ID, 0, 0, "skipped", "", <<>>, NoRaw)
            /\ UNCHANGED <<store, meta>>
       ELSE IF MongoClient(MONGODB_URI).exc # ""
       THEN /\ ret' = Result("run_seed_if_needed", DEVICE_ID, 0, 0, "raised",
                             MongoClient(MONGODB_URI).exc, <<>>, NoRaw)
            /\ UNCHANGED <<store, meta>>
       ELSE IF ~backendUp
       THEN \* find_one raises; the import prints the error
            /\ ret' = Result("run_seed_if_needed", DEVICE_ID, 0, 0, "error",
                             "ServerSelectionTimeoutError", <<>>, NoRaw)
            /\ UNCHANGED <<store, meta>>
       ELSE IF _already_seeded
       THEN /\ ret' = Result("run_seed_if_needed", DEVICE_ID, 0, 0, "skipped", "", <<>>, NoRaw)
            /\ UNCHANGED <<store, meta>>
       ELSE /\ store' = [store EXCEPT ![DEVICE_ID] = insert_many(DEVICE_ID, generate_docs)]
            /\ meta' = _mark_seeded
            /\ ret' = Result("run_seed_if_needed", DEVICE_ID, 0, 0, "seeded", "", <<>>, NoRaw)
    /\ UNCHANGED <<threads, MONGODB_URI, backendUp, _client, devices, clock>>

\* devices.save_devices
save_devices(devs) == devs

\* add_device_page with the form submitted; device_id is already stripped
AddDevice(name, device_id) ==
    /\ ret = NoResult
    /\ Len(devices) < MaxDevices
    /\ IF device_id = ""
       THEN /\ devices' = devices
            /\ ret' = Result("add_device_page", device_id, 0, 0, "error", "", <<>>, NoRaw)
       ELSE /\ devices' = save_devices(Append(devices,
                              [name |-> IF name = "" THEN device_id ELSE name,
                               id |-> device_id]))
            /\ ret' = Result("add_device_page", device_id, 0, 0, "saved", "", <<>>, NoRaw)
    /\ UNCHANGED <<threads, MONGODB_URI, backendUp, _client, store, meta, clock>>

RECURSIVE to_keep(_, _)
to_keep(devs, deleted) ==
    IF devs = <<>> THEN <<>>
    ELSE LET init == to_keep(SubSeq(devs, 1, Len(devs) - 1), deleted)
             d == devs[Len(devs)]
         IN IF d.id \in deleted THEN init ELSE Append(init, d)

\* manage_devices_page with the Delete boxes of `deleted` ticked and
\* "Save changes" pressed
ManageDevices(deleted) ==
    /\ ret = NoResult
    /\ devices # <<>>
    /\ devices' = save_devices(to_keep(devices, deleted))
    /\ ret' = Result("manage_devices_page", None,
                     Len(devices) - Len(to_keep(devices, deleted)), 0,
                     "saved", "", <<>>, NoRaw)
    /\ UNCHANGED <<threads, MONGODB_URI, backendUp, _client, store, meta, clock>>

\* Time passes
Tick ==
    /\ ret = NoResult
    /\ clock + TickHours <= ClockEnd
    /\ clock' = clock + TickHours
    /\ UNCHANGED <<threads, MONGODB_URI, backendUp, _client, store, meta, devices, ret>>

\* The MongoDB deployment becomes unreachable, or reachable again
BackendFlip ==
    /\ ret = NoResult
    /\ backendUp' = ~backendUp
    /\ UNCHANGED <<threads, MONGODB_URI, _client, store, meta, devices, clock, ret>>

\* The caller takes what the operation returned (renders it, logs it, or
\* catches the exception) and is free to start the next operation.
Return ==
    /\ ret # NoResult
    /\ ret' = NoResult
    /\ UNCHANGED <<threads, MONGODB_URI, backendUp, _client, store, meta, devices, clock>>

Next ==
    \/ \E d \in DeviceIds, raw \in RawStatuses : Sample(d, raw)
    \/ \E d \in DeviceIds, n \in 0..MaxN : Latest(d, n)
    \/ \E d \in DeviceIds, s \in RangeBounds, e \in RangeBounds : Range(d, s, e)
    \/ \E d \in RegistryIds, sd \in Dates, ed \in Dates : Historical(d, sd, ed)
    \/ RunSeed
    \/ \E d \in RegistryIds \cup {""} : AddDevice("", d)
    \/ \E del \in SUBSET {devices[i].id : i \in DOMAIN devices} : ManageDevices(del)
    \/ Tick
    \/ BackendFlip
    \/ Return

Spec == Init /\ [][Next]_vars

----------------------------------------------------------------------------
(* parse_metrics on its own: every payload over a small set of raw values *)

RawValues == {-10, 0, 2300, 1500, 6500, 12345}

\* the result list of a payload that gives each code of `present` a value,
\* in the vendor's order, followed by the entries of `tail`
PayloadOf(vals, present, tail) ==
    LET E(c) == IF c \in present THEN <<Entry(c, vals[c])>> ELSE <<>>
    IN [success |-> TRUE,
        result |-> List(E("cur_voltage") \o E("cur_power") \o E("cur_current")
                        \o E("add_ele") \o tail)]

Payloads ==
    {PayloadOf(vals, present, tail) :
        vals \in [Codes -> RawValues],
        present \in SUBSET Codes,
        tail \in {<<>>, <<Entry("switch_1", 1)>>, <<Entry("cur_power", 0)>>}}

InitParse ==
    /\ MONGODB_URI = ""
    /\ backendUp = FALSE
    /\ _client = None
    /\ store = [d \in DeviceIds |-> <<>>]
    /\ meta = <<>>
    /\ devices = <<>>
    /\ clock = ClockStart
    /\ ret \in {Result("payload", None, 0, 0, "input", "", <<>>, p) : p \in Payloads}
    /\ threads = <<>>

\* parse_metrics(status_json) called on the payload at hand
Parse ==
    /\ ret.op = "payload"
    /\ ret' = Result("parse_metrics", None, 0, 0, "ok", "",
                     <<parse_metrics(ret.raw)>>, ret.raw)
    /\ UNCHANGED <<threads, MONGODB_URI, backendUp, _client, store, meta, devices, clock>>

NextParse == Parse

SpecParse == InitParse /\ [][NextParse]_vars

----------------------------------------------------------------------------
(* fetch_and_log_once called side by side (Streamlit sessions, pollers).   *)
(* A call is cut where it talks to something shared: the vendor's API,     *)
(* the clock read by build_doc, and insert_reading, whose insert_one the   *)
(* server applies as one atomic single-document write.                     *)

Calls == 1..MaxCalls

NoDoc == [absent |-> TRUE]

Thread(pc, device_id, raw, doc, kind, exc, wrote) ==
    [pc |-> pc, device_id |-> device_id, raw |-> raw, doc |-> doc,
     kind |-> kind, exc |-> exc, wrote |-> wrote]

Idle == Thread("idle", None, NoRaw, NoDoc, "none", "", FALSE)

SampleDevices == RegistryIds

SampleRaws == {RawFail, RawFull, RawEmpty}

\* the flag document _mark_seeded wrote at `at`
SeedFlag(at) == [id |-> "history_seed_done", done |-> TRUE, at |-> at]

InitSample ==
    /\ MONGODB_URI \in URIs
    /\ backendUp \in BOOLEAN
    /\ _client = None
    /\ clock = ClockStart
    /\ \E seeded \in BOOLEAN :
          /\ store = [d \in DeviceIds |->
                         IF seeded /\ d = DEVICE_ID THEN generate_docs ELSE <<>>]
          /\ meta = IF seeded THEN <<SeedFlag(ClockStart)>> ELSE <<>>
    /\ devices = <<>>
    /\ ret = NoResult
    /\ threads = [t \in Calls |-> Idle]

\* lines 8-9: token = get_token(); raw = get_device_status(device_id, token)
CallFetch(t, device_id, raw) ==
    /\ threads[t].pc = "idle"
    /\ threads' = [threads EXCEPT ![t] =
                      Thread("fetched", device_id, raw, NoDoc, "none", "", FALSE)]
    /\ UNCHANGED <<MONGODB_URI, backendUp, _client, store, meta, devices, clock, ret>>

\* lines 14-20: the success test, parse_metrics and build_doc
CallBuild(t) ==
    /\ threads[t].pc = "fetched"
    /\ LET th == threads[t]
       IN threads' = [threads EXCEPT ![t] =
              IF ~Success(th.raw)
              THEN Thread("done", th.device_id, th.raw, NoDoc, "error", "", FALSE)
              ELSE IF parse_metrics_exc(th.raw) # ""
              THEN Thread("done", th.device_id, th.raw, NoDoc, "raised",
                          parse_metrics_exc(th.raw), FALSE)
              ELSE LET m == parse_metrics(th.raw)
                   IN Thread("built", th.device_id, th.raw,
                             build_doc(th.device_id, th.device_id,
                                       m.voltage, m.current, m.power, m.energy_kwh),
                             "none", "", FALSE)]
    /\ UNCHANGED <<MONGODB_URI, backendUp, _client, store, meta, devices, clock, ret>>

\* lines 21-22: insert_reading(device_id, doc), then the return
CallInsert(t) ==
    /\ threads[t].pc = "built"
    /\ LET th == threads[t]
           ins == insert_reading(th.device_id, th.doc)
       IN /\ _client' = ins.client
          /\ store' = IF ins.exc = "" /\ ins.wrote
                      THEN [store EXCEPT ![th.device_id] = ins.docs]
                      ELSE store
          /\ threads' = [threads EXCEPT ![t] =
                 IF ins.exc # ""
                 THEN Thread("done", th.device_id, th.raw, th.doc, "raised", ins.exc, FALSE)
                 ELSE Thread("done", th.device_id, th.raw, th.doc, "ok", "", ins.wrote)]
    /\ UNCHANGED <<MONGODB_URI, backendUp, meta, devices, clock, ret>>

NextSample ==
    \/ \E t \in Calls, d \in SampleDevices, raw \in SampleRaws : CallFetch(t, d, raw)
    \/ \E t \in Calls : CallBuild(t)
    \/ \E t \in Calls : CallInsert(t)
    \/ Tick
    \/ BackendFlip

SpecSample == InitSample /\ [][NextSample]_vars

----------------------------------------------------------------------------
(* seed_history imported by several processes against one deployment.      *)
(* A run is cut at its three round trips to the server: find_one on the    *)
(* flag, insert_many of the batch, update_one of the flag.                 *)

Runs == 1..MaxRuns

Run(pc, kind, exc) == Thread(pc, DEVICE_ID, NoRaw, NoDoc, kind, exc, FALSE)

InitSeed ==
    /\ MONGODB_URI \in URIs
    /\ backendUp \in BOOLEAN
    /\ _client = None
    /\ store = [d \in DeviceIds |-> <<>>]
    /\ meta = <<>>
    /\ devices = <<>>
    /\ clock = ClockStart
    /\ ret = NoResult
    /\ threads = [t \in Runs |-> Idle]

\* lines 48-57 and 157-163: the module's client set-up, then SEED_OK and
\* _already_seeded()
RunCheck(t) ==
    /\ threads[t].pc = "idle"
    /\ threads' = [threads EXCEPT ![t] =
          IF ~SEED_OK THEN Run("done", "skipped", "")
          ELSE IF MongoClient(MONGODB_URI).exc # ""
          THEN Run("done", "raised", MongoClient(MONGODB_URI).exc)
          ELSE IF ~backendUp
          THEN Run("done", "error", "ServerSelectionTimeoutError")
          ELSE IF _already_seeded THEN Run("done", "skipped", "")
          ELSE Run("checked", "none", "")]
    /\ UNCHANGED <<MONGODB_URI, backendUp, _client, store, meta, devices, clock, ret>>

\* lines 165-172: generate_docs() and readings_coll.insert_many(docs); an
\* exception ends the run in the import's except clause
RunInsert(t) ==
    /\ threads[t].pc = "checked"
    /\ IF ~backendUp
       THEN /\ threads' = [threads EXCEPT ![t] =
                              Run("done", "error", "ServerSelectionTimeoutError")]
            /\ store' = store
       ELSE /\ threads' = [threads EXCEPT ![t] = Run("inserted", "none", "")]
            /\ store' = [store EXCEPT ![DEVICE_ID] = insert_many(DEVICE_ID, generate_docs)]
    /\ UNCHANGED <<MONGODB_URI, backendUp, _client, meta, devices, clock, ret>>

\* lines 173-174: _mark_seeded()
RunMark(t) ==
    /\ threads[t].pc = "inserted"
    /\ IF ~backendUp
       THEN /\ threads' = [threads EXCEPT ![t] =
                              Run("done", "error", "ServerSelectionTimeoutError")]
            /\ meta' = meta
       ELSE /\ threads' = [threads EXCEPT ![t] = Run("done", "seeded", "")]
            /\ meta' = _mark_seeded
    /\ UNCHANGED <<MONGODB_URI, backendUp, _client, store, devices, clock, ret>>

\* the process is stopped between insert_many and _mark_seeded
RunInterrupt(t) ==
    /\ threads[t].pc = "inserted"
    /\ threads' = [threads EXCEPT ![t] = Run("done", "interrupted", "")]
    /\ UNCHANGED <<MONGODB_URI, backendUp, _client, store, meta, devices, clock, ret>>

NextSeed ==
    \/ \E t \in Runs : RunCheck(t)
    \/ \E t \in Runs : RunInsert(t)
    \/ \E t \in Runs : RunMark(t)
    \/ \E t \in Runs : RunInterrupt(t)
    \/ Tick
    \/ BackendFlip

SpecSeed == InitSeed /\ [][NextSeed]_vars

----------------------------------------------------------------------------
(* Properties *)

IsSample == ret.op = "fetch_and_log_once"

\* the store can take and give documents of this device
StoreWorking(device_id) ==
    /\ MONGODB_URI # ""
    /\ backendUp
    /\ ~InvalidCollectionName(device_id)

StoreUnavailable == MONGODB_URI = "" \/ ~backendUp

IsPrefix(s, t) == Len(s) <= Len(t) /\ SubSeq(t, 1, Len(s)) = s

Count(seq, x) == Cardinality({i \in DOMAIN seq : seq[i] = x})

\* C1: fetch_and_log_once never raises to its caller: every call returns the
\* success result or the failure value, whatever get_device_status
\* answers and whatever parse_metrics and the store write do.
C1_NeverRaises == IsSample => ret.kind \in {"ok", "error"}

\* C2: a call of fetch_and_log_once writes at most one document, and only to
\* its own device's collection; when the fetch reports failure the
\* collection is unchanged; when the call succeeds against a working store
\* the collection grows by exactly the returned reading, also when an equal
\* reading is already there.
C2_OneWritePerSuccess ==
    [][(ret = NoResult /\ ret'.op = "fetch_and_log_once") =>
          LET d == ret'.device_id
          IN /\ \A x \in DeviceIds \ {d} : store'[x] = store[x]
             /\ IsPrefix(store[d], store'[d])
             /\ Len(store'[d]) <= Len(store[d]) + 1
             /\ (ret'.kind = "error" => store' = store)
             /\ (ret'.kind = "ok" /\ StoreWorking(d) =>
                    store'[d] = Append(store[d], bson(ret'.rows[1])))]_vars

\* C2 happens: a successful call has just stored a reading equal to the one
\* stored before it.
C2_Witness ==
    /\ IsSample /\ ret.kind = "ok"
    /\ LET docs == store[ret.device_id]
       IN /\ Len(docs) >= 2
          /\ docs[Len(docs)] = bson(ret.rows[1])
          /\ docs[Len(docs) - 1] = docs[Len(docs)]

\* C3: whenever fetch_and_log_once returns success, the returned reading is
\* in the device's collection (a write that did not happen is reported).
C3_SuccessMeansStored ==
    (IsSample /\ ret.kind = "ok") =>
        \E i \in DOMAIN store[ret.device_id] :
            store[ret.device_id][i] = bson(ret.rows[1])

\* C4: while the store is unavailable (no MONGODB_URI, or the deployment
\* unreachable), latest_docs and range_docs return an empty frame and
\* neither they nor the write inside fetch_and_log_once raise, for every
\* device id and every argument.
C4_UnavailableDegrades ==
    StoreUnavailable =>
        /\ (ret.op \in {"latest_docs", "range_docs"} =>
               ret.kind = "rows" /\ ret.rows = <<>>)
        /\ (IsSample => ret.exc \notin PyMongoErrors)

\* a payload flagged successful that carries nothing parse_metrics can read
Unparseable(raw) ==
    /\ Success(raw)
    /\ \/ parse_metrics_exc(raw) # ""
       \/ "result" \notin DOMAIN raw
       \/ \A i \in DOMAIN raw.result.items : raw.result.items[i].code \notin Codes

ZeroReading(device_id) ==
    bson(build_doc(device_id, device_id, Div(0, VoltageScale), Div(0, CurrentScale),
                   Div(0, PowerScale), Div(0, EnergyScale)))

\* C5: a wholly unparseable payload makes fetch_and_log_once return the
\* failure value and store nothing: no all-zero reading of this instant is
\* in the collection.
C5_UnparseableIsFailure ==
    (IsSample /\ Unparseable(ret.raw)) =>
        /\ ret.kind = "error"
        /\ \A i \in DOMAIN store[ret.device_id] :
              store[ret.device_id][i] # ZeroReading(ret.device_id)


Ascending(rows) ==
    \A i, j \in DOMAIN rows : i < j => rows[i].timestamp.wall <= rows[j].timestamp.wall

Min(a, b) == IF a <= b THEN a ELSE b

\* C6: latest_docs(device_id, n), n >= 0, asked of a working store returns
\* at most n readings: min(n, count) of them, none older than a reading
\* left out, in ascending timestamp order (so none when there are none).
C6_LatestAtMostN ==
    (ret.op = "latest_docs" /\ StoreWorking(ret.device_id)) =>
        LET docs == store[ret.device_id]
            n == ret.a
        IN /\ ret.kind = "rows"
           /\ Len(ret.rows) <= n
           /\ Len(ret.rows) = Min(n, Len(docs))
           /\ Ascending(ret.rows)
           /\ \A x \in {docs[i] : i \in DOMAIN docs} :
                 /\ Count(ret.rows, x) <= Count(docs, x)
                 /\ Count(ret.rows, x) < Count(docs, x) =>
                       \A k \in DOMAIN ret.rows :
                           x.timestamp.wall <= ret.rows[k].timestamp.wall
           /\ \A k \in DOMAIN ret.rows : Count(docs, ret.rows[k]) > 0

\* the stored readings of docs with start <= timestamp <= end
InRange(docs, start, end) ==
    {i \in DOMAIN docs : start <= docs[i].timestamp.wall /\ docs[i].timestamp.wall <= end}

C8_NaiveUtc ==
    /\ [](\A d \in DeviceIds : \A i \in DOMAIN store[d] :
              store[d][i].timestamp.tz = None)
    /\ [][\A d \in DeviceIds :
             \A i \in (Len(store[d]) + 1)..Len(store'[d]) :
                LET ts == store'[d][i].timestamp
                IN /\ ts.tz = None
                   /\ IF ret'.op = "fetch_and_log_once"
                      THEN ts.wall = clock
                      ELSE /\ ts.wall < day_start_of(clock)
                           /\ ts.wall >= day_start_of(clock) - SeedDays * HoursPerDay
                           /\ (ts.wall % HoursPerDay) % SeedStepHours = 0
         ]_vars

\* C8 happens: late in the UTC day, when the UTC+6 calendar is already a
\* day ahead, a collection holds a seeded and a sampled reading.
C8_Witness ==
    /\ clock % HoursPerDay >= HoursPerDay - DHAKA_OFFSET_HOURS
    /\ \E i, j \in DOMAIN store[DEVICE_ID] :
          /\ store[DEVICE_ID][i].device_name = DEVICE_NAME
          /\ store[DEVICE_ID][j].device_name # DEVICE_NAME
          /\ store[DEVICE_ID][j].timestamp.wall = clock

\* C9: the reading log is append-only: no step of sampling, reading,
\* seeding or editing the registry removes or changes a stored reading.
C9_AppendOnly ==
    [][\A d \in DeviceIds : IsPrefix(store[d], store'[d])]_vars

\* C9 happens: a device has just been deleted on the manage page while its
\* collection holds readings.
C9_Witness ==
    /\ ret.op = "manage_devices_page" /\ ret.a >= 1
    /\ \E d \in RegistryIds :
          /\ store[d] # <<>>
          /\ \A i \in DOMAIN devices : devices[i].id # d

\* the value the payload's last entry of this code gives, 0 with no entry
RawOf(raw, code) ==
    LET items == raw.result.items
        at == {i \in DOMAIN items : items[i].code = code}
    IN IF at = {} THEN 0
       ELSE items[CHOOSE i \in at : \A j \in at : j <= i].value

\* q is the float a / b
IsQuotient(q, a, b) == q.den # 0 /\ q.num * b = a * q.den

\* C10: parse_metrics returns (cur_voltage/10, cur_current/1000,
\* cur_power/10, add_ele/1000), a missing code counting as raw 0 for its
\* field only, zero and negative values passed through; the payload
\* (2300, 1500, 6500, 12345) gives (230.0, 6.5, 150.0, 12.345).
C10_ParseScales ==
    ret.op = "parse_metrics" =>
        LET out == ret.rows[1]
        IN /\ IsQuotient(out.voltage, RawOf(ret.raw, "cur_voltage"), 10)
           /\ IsQuotient(out.current, RawOf(ret.raw, "cur_current"), 1000)
           /\ IsQuotient(out.power, RawOf(ret.raw, "cur_power"), 10)
           /\ IsQuotient(out.energy_kwh, RawOf(ret.raw, "add_ele"), 1000)
           /\ ret.raw = RawFull =>
                 /\ IsQuotient(out.voltage, 230, 1)
                 /\ IsQuotient(out.current, 65, 10)
                 /\ IsQuotient(out.power, 150, 1)
                 /\ IsQuotient(out.energy_kwh, 12345, 1000)

\* C10 happens: parse_metrics has run on a payload with a negative value, a
\* zero value and a missing code.
C10_Witness ==
    /\ ret.op = "parse_metrics"
    /\ RawOf(ret.raw, "cur_power") < 0
    /\ \E i \in DOMAIN ret.raw.result.items :
          ret.raw.result.items[i] = Entry("cur_voltage", 0)
    /\ \A i \in DOMAIN ret.raw.result.items :
          ret.raw.result.items[i].code # "add_ele"
    /\ ret.rows[1].power.num < 0

\* the 'history_seed_done' flag is in the meta collection
Flagged == \E i \in DOMAIN meta : meta[i].id = "history_seed_done" /\ meta[i].done

\* the synthetic documents a collection holds
Seeded(docs) == {i \in DOMAIN docs : docs[i].device_name = DEVICE_NAME}

BatchSize == SeedDays * StepsPerDay

IsSeedRun == ret.op # "run_seed_if_needed" /\ ret'.op = "run_seed_if_needed"

\* C11: seeding is one-shot over successive runs of run_seed_if_needed: the
\* flag is in meta only once a batch is in the collection, a run that finds
\* the flag inserts no document, and a run with no MONGODB_URI inserts
\* nothing and writes no flag.
C11_SeedOneShot ==
    /\ [](Flagged => Cardinality(Seeded(store[DEVICE_ID])) >= BatchSize)
    /\ [][IsSeedRun =>
            /\ Flagged => /\ store' = store
                          /\ meta' = meta
                          /\ ret'.kind # "seeded"
            /\ MONGODB_URI = "" => /\ store' = store
                                   /\ meta' = meta
                                   /\ ret'.kind = "skipped"
         ]_vars

\* C11 happens: a run made after the clock has moved on from the seeding
\* run finds the flag and leaves the one batch alone.
C11_Witness ==
    /\ ret.op = "run_seed_if_needed" /\ ret.kind = "skipped"
    /\ Flagged
    /\ \E i \in DOMAIN meta : meta[i].at < clock
    /\ Cardinality(Seeded(store[DEVICE_ID])) = BatchSize

\* every call has returned
AllDone == \A t \in DOMAIN threads : threads[t].pc = "done"

\* the calls for this device that returned {"ok": True, ...}
Successes(d) == {t \in DOMAIN threads : threads[t].device_id = d /\ threads[t].kind = "ok"}

\* the sampled readings a collection holds
Sampled(docs) == {i \in DOMAIN docs : docs[i].device_name # DEVICE_NAME}

\* C12: whatever the interleaving of side-by-side fetch_and_log_once calls,
\* once all have returned each device's collection holds the readings it
\* held before plus exactly one reading per call for that device that
\* returned success, each call's own reading, and nothing from a call for
\* another device.
C12_NoLostAppend ==
    AllDone =>
        \A d \in DeviceIds :
            LET docs == store[d]
            IN /\ Cardinality(Seeded(docs)) = IF d = DEVICE_ID /\ Flagged THEN BatchSize ELSE 0
               /\ Cardinality(Sampled(docs)) = Cardinality(Successes(d))
               /\ \A i \in Sampled(docs) : docs[i].device_id = d
               /\ \A t \in Successes(d) :
                     Count(docs, bson(threads[t].doc))
                         = Cardinality({u \in Successes(d) :
                                           threads[u].doc = threads[t].doc})

\* C13: the flag is tested and set atomically with the backfill: whatever
\* the interleaving of seeding runs started side by side, and wherever a
\* run is cut between insert_many and the flag write, the collection never
\* holds more than one synthetic batch.
C13_BatchAtMostOnce ==
    Cardinality(Seeded(store[DEVICE_ID])) <= BatchSize

\* the calendar date, in the UTC+6 zone, of the instant a stored (naive
\* UTC) timestamp stands for
LocalDate(ts) == (ts.wall + DHAKA_OFFSET_HOURS) \div HoursPerDay

\* the stored readings sampled on a local date within [start_date, end_date]
OnLocalDates(docs, start_date, end_date) ==
    {i \in DOMAIN docs : /\ start_date <= LocalDate(docs[i].timestamp)
                         /\ LocalDate(docs[i].timestamp) <= end_date}

\* C14: the historical query of the device page, asked of a working store
\* for the local dates start_date <= end_date, shows exactly the stored
\* readings whose sampling instant falls, in the UTC+6 zone, on a date
\* within [start_date, end_date].
C14_LocalDateRange ==
    (/\ ret.op = "device_detail_page"
     /\ ret.a <= ret.b
     /\ StoreWorking(ret.device_id)) =>
        LET docs == store[ret.device_id]
            hits == OnLocalDates(docs, ret.a, ret.b)
        IN /\ ret.kind = "rows"
           /\ Len(ret.rows) = Cardinality(hits)
           /\ \A i \in hits :
                 Count(ret.rows, docs[i])
                     = Cardinality({j \in hits : docs[j] = docs[i]})

====
